---- MODULE Spec2Model ----
(***************************************************************************)
(* Model of compile.py: the text-to-HTML transformation                    *)
(* (create_html_template) and the file driver (compile_file,               *)
(* compile_directory, main).                                               *)
(*                                                                         *)
(* A Python str is a sequence of one-character strings.  The section sign  *)
(* of the placeholders is the character "§".                               *)
(***************************************************************************)
EXTENDS Integers, Sequences, FiniteSets

VARIABLES
    source,          \* create_html_template: the `content` argument as passed in
    content,         \* create_html_template: the local `content`, reassigned by each step
    markdown_links,  \* create_html_template: the markdown_links list
    literal_links,   \* create_html_template: the literal_links list
    rpc,             \* create_html_template: the step to run next
    fs,              \* driver: the source tree, a set of file records
    argv,            \* driver: sys.argv[1:], as a record
    md_left,         \* driver: files of md_files not yet visited by the loop
    written,         \* driver: the output files written (destination paths)
    stdout,          \* driver: what print() wrote, in order
    stderr,          \* driver: what reached the error stream, in order
    failed,          \* driver: files on which compile_file returned False
    after_failure,   \* driver: files compile_file was called on after a failure
    status,          \* driver: exit status, -1 while running
    pc               \* driver position

vars == <<source, content, markdown_links, literal_links, rpc, fs, argv, md_left,
          written, stdout, stderr, failed, after_failure, status, pc>>

render_vars == <<source, content, markdown_links, literal_links, rpc>>
driver_vars == <<fs, argv, md_left, written, stdout, stderr, failed,
                 after_failure, status, pc>>

(***************************************************************************)
(* Bounds of the model.                                                    *)
(***************************************************************************)
MaxParts == 3
MaxMany == 11
MaxFiles == 3

(***************************************************************************)
(* Character classes of the two regular expressions.                       *)
(***************************************************************************)
Lower == {"a","b","c","d","e","f","g","h","i","j","k","l","m",
          "n","o","p","q","r","s","t","u","v","w","x","y","z"}
Upper == {"A","B","C","D","E","F","G","H","I","J","K","L","M",
          "N","O","P","Q","R","S","T","U","V","W","X","Y","Z"}
Digits == {"0","1","2","3","4","5","6","7","8","9"}
\* [a-zA-Z]
Letter == Lower \cup Upper
\* [a-zA-Z0-9\-]
DomainChar == Letter \cup Digits \cup {"-"}
\* the complement of [^\s<>"\'] (of \s, the ASCII whitespace a string of
\* this module can spell)
StopChar == {" ", "\n", "\t", "\r", "\f", "<", ">", "\"", "'"}

(***************************************************************************)
(* str helpers.                                                            *)
(***************************************************************************)
Min(S) == CHOOSE m \in S : \A o \in S : m <= o

\* s[i:].startswith(p)
IsPrefixAt(s, i, p) ==
    /\ i >= 1
    /\ i + Len(p) - 1 <= Len(s)
    /\ \A k \in 1..Len(p) : s[i + k - 1] = p[k]

StartsWith(s, p) == IsPrefixAt(s, 1, p)

EndsWith(s, p) == Len(s) >= Len(p) /\ IsPrefixAt(s, Len(s) - Len(p) + 1, p)

\* p in s
Contains(s, p) == \E i \in 1..Len(s) : IsPrefixAt(s, i, p)

\* s.find(p, from), 1-based, 0 when absent
FindFrom(s, from, p) ==
    LET hits == {i \in from..Len(s) : IsPrefixAt(s, i, p)}
    IN  IF hits = {} THEN 0 ELSE Min(hits)

\* s.replace(old, new): every non-overlapping occurrence, left to right
RECURSIVE ReplaceFrom(_, _, _, _)
ReplaceFrom(s, from, old, new) ==
    LET i == FindFrom(s, from, old)
    IN  IF i = 0
        THEN SubSeq(s, from, Len(s))
        ELSE SubSeq(s, from, i - 1) \o new \o ReplaceFrom(s, i + Len(old), old, new)

Replace(s, old, new) == ReplaceFrom(s, 1, old, new)

\* str(n) for n >= 0
DigitOf(d) ==
    CASE d = 0 -> "0" [] d = 1 -> "1" [] d = 2 -> "2" [] d = 3 -> "3"
      [] d = 4 -> "4" [] d = 5 -> "5" [] d = 6 -> "6" [] d = 7 -> "7"
      [] d = 8 -> "8" [] d = 9 -> "9"

RECURSIVE Str(_)
Str(n) == IF n < 10 THEN <<DigitOf(n)>> ELSE Str(n \div 10) \o <<DigitOf(n % 10)>>

\* Last index of the longest run of characters of class C starting at i
\* (i - 1 when s[i] is not in C or i is past the end).
RECURSIVE RunEnd(_, _, _)
RunEnd(s, i, C) ==
    IF i > Len(s) \/ s[i] \notin C THEN i - 1 ELSE RunEnd(s, i + 1, C)

\* Last index of the longest run of [^\s<>"\'] starting at i.
NonStopEnd(s, i) ==
    LET stops == {j \in i..Len(s) : s[j] \in StopChar}
    IN  IF stops = {} THEN Len(s) ELSE Min(stops) - 1

(***************************************************************************)
(* String literals of the source.                                          *)
(***************************************************************************)
Http == <<"h","t","t","p",":","/","/">>
Https == <<"h","t","t","p","s",":","/","/">>
Ftp == <<"f","t","p",":","/","/">>
Mailto == <<"m","a","i","l","t","o",":">>
Www == <<"w","w","w",".">>
DotHtml == <<".","h","t","m","l">>
MdMarker == <<"§","§","M","D","L","I","N","K">>
LitMarker == <<"§","§","L","I","N","K">>
Delim == <<"§","§">>
AHref == <<"<","a"," ","h","r","e","f","=","\"">>
TargetBlank == <<"\""," ","t","a","r","g","e","t","=","\"","_","b","l","a","n","k","\"",">">>
QuoteGt == <<"\"",">">>
CloseA == <<"<","/","a",">">>
Amp == <<"&","a","m","p",";">>
Lt == <<"&","l","t",";">>
Gt == <<"&","g","t",";">>

(***************************************************************************)
(* create_html_template: the Markdown-link pass.                           *)
(***************************************************************************)
\* f'§§MDLINK{len(markdown_links)}§§'
MdPlaceholder(n) == MdMarker \o Str(n) \o Delim

\* save_markdown_link without lines 31-32: a leading '/' is kept.
SaveMarkdownLinkKeepSlash(text, path) ==
    IF \/ StartsWith(path, Http) \/ StartsWith(path, Https)
       \/ StartsWith(path, Ftp) \/ StartsWith(path, Mailto)
    THEN AHref \o path \o TargetBlank \o text \o CloseA
    ELSE LET p1 == IF ~EndsWith(path, DotHtml) THEN path \o DotHtml ELSE path
         IN  AHref \o p1 \o QuoteGt \o text \o CloseA

\* save_markdown_link: the anchor appended to markdown_links
SaveMarkdownLink(text, path) ==
    IF \/ StartsWith(path, Http) \/ StartsWith(path, Https)
       \/ StartsWith(path, Ftp) \/ StartsWith(path, Mailto)
    THEN AHref \o path \o TargetBlank \o text \o CloseA
    ELSE LET p1 == IF ~EndsWith(path, DotHtml) THEN path \o DotHtml ELSE path
             p2 == IF StartsWith(p1, <<"/">>) THEN Tail(p1) ELSE p1
         IN  AHref \o p2 \o QuoteGt \o text \o CloseA

\* r'\[([^\]]+)\]\(([^)]+)\)' tried at position i: the groups and the index of
\* the closing parenthesis, end = 0 when the pattern does not match at i.
MdMatchAt(s, i) ==
    LET none == [end |-> 0, text |-> <<>>, path |-> <<>>]
        j == FindFrom(s, i + 1, <<"]">>)
        k == FindFrom(s, j + 2, <<")">>)
    IN  IF s[i] # "[" \/ j = 0 \/ j = i + 1 THEN none
        ELSE IF j + 1 > Len(s) \/ s[j + 1] # "(" THEN none
        ELSE IF k = 0 \/ k = j + 2 THEN none
        ELSE [end |-> k, text |-> SubSeq(s, i + 1, j - 1),
              path |-> SubSeq(s, j + 2, k - 1)]

\* The leftmost position >= from where the Markdown pattern matches, or 0.
NextMdMatch(s, from) ==
    LET hits == {i \in from..Len(s) : s[i] = "[" /\ MdMatchAt(s, i).end # 0}
    IN  IF hits = {} THEN 0 ELSE Min(hits)

\* re.sub(pattern, save_markdown_link, content) from position `from`, with the
\* links saved so far: the substituted text and the markdown_links list.
RECURSIVE MdSub(_, _, _)
MdSub(s, from, links) ==
    LET i == NextMdMatch(s, from)
        m == MdMatchAt(s, i)
        rest == MdSub(s, m.end + 1, Append(links, SaveMarkdownLink(m.text, m.path)))
    IN  IF i = 0
        THEN [text |-> SubSeq(s, from, Len(s)), links |-> links]
        ELSE [text |-> SubSeq(s, from, i - 1) \o MdPlaceholder(Len(links)) \o rest.text,
              links |-> rest.links]

(***************************************************************************)
(* create_html_template: the literal-URL pass.                             *)
(***************************************************************************)
\* The literal placeholder without its closing delimiter.
LitPlaceholderOpen(n) == LitMarker \o Str(n)

\* f'§§LINK{len(literal_links)}§§'
LitPlaceholder(n) == LitMarker \o Str(n) \o Delim

\* url_pattern tried at position i: the index of the last matched character,
\* 0 when no alternative matches at i.  The alternatives are tried in order;
\* every quantifier is greedy and nothing follows the alternation, so the
\* first alternative that matches decides.
UrlMatchEnd(s, i) ==
    LET scheme == IF IsPrefixAt(s, i, Https) THEN Len(Https)
                  ELSE IF IsPrefixAt(s, i, Http) THEN Len(Http)
                  ELSE IF IsPrefixAt(s, i, Ftp) THEN Len(Ftp)
                  ELSE IF IsPrefixAt(s, i, Www) THEN Len(Www)
                  ELSE 0
        e == NonStopEnd(s, i + scheme)
        r == RunEnd(s, i, DomainChar)
        l == RunEnd(s, r + 2, Letter)
    IN  IF scheme > 0 /\ e >= i + scheme THEN e
        ELSE IF r < i \/ r + 1 > Len(s) \/ s[r + 1] # "." THEN 0
        ELSE IF l < r + 3 THEN 0
        ELSE IF l + 1 <= Len(s) /\ s[l + 1] = "/" THEN NonStopEnd(s, l + 2)
        ELSE l

\* The leftmost position >= from where url_pattern matches, or 0.
\* (Every alternative begins with a character of [a-zA-Z0-9\-].)
NextUrlMatch(s, from) ==
    LET hits == {i \in from..Len(s) : s[i] \in DomainChar /\ UrlMatchEnd(s, i) # 0}
    IN  IF hits = {} THEN 0 ELSE Min(hits)

\* f'<a href="{href}" target="_blank">{url}</a>'
LiteralAnchor(href, url) == AHref \o href \o TargetBlank \o url \o CloseA

\* save_literal_url without the elif of lines 59-60: a match with no scheme,
\* no www. and no '/' is returned as it is.
SaveLiteralUrlNoElif(url, n) ==
    LET asis == [repl |-> url, links |-> <<>>]
        linked(href) == [repl |-> LitMarker \o Str(n) \o Delim,
                         links |-> <<LiteralAnchor(href, url)>>]
    IN  IF Contains(url, MdMarker) THEN asis
        ELSE IF ~(StartsWith(url, Http) \/ StartsWith(url, Https) \/ StartsWith(url, Ftp))
        THEN IF StartsWith(url, Www) \/ (Contains(url, <<".">>) /\ Contains(url, <<"/">>))
             THEN linked(Http \o url)
             ELSE asis
        ELSE linked(url)

\* save_literal_url with n links saved so far: the replacement text and the
\* anchors appended to literal_links (none when the match is returned as is).
SaveLiteralUrl(url, n) ==
    LET asis == [repl |-> url, links |-> <<>>]
        linked(href) == [repl |-> LitPlaceholder(n),
                         links |-> <<LiteralAnchor(href, url)>>]
    IN  IF Contains(url, MdMarker) THEN asis
        ELSE IF ~(StartsWith(url, Http) \/ StartsWith(url, Https) \/ StartsWith(url, Ftp))
        THEN IF StartsWith(url, Www) \/ (Contains(url, <<".">>) /\ Contains(url, <<"/">>))
             THEN linked(Http \o url)
             ELSE IF Contains(url, <<".">>)
             THEN linked(Http \o url)
             ELSE asis
        ELSE linked(url)

\* re.sub(url_pattern, save_literal_url, content) from position `from`.
RECURSIVE UrlSub(_, _, _)
UrlSub(s, from, links) ==
    LET i == NextUrlMatch(s, from)
        e == UrlMatchEnd(s, i)
        r == SaveLiteralUrl(SubSeq(s, i, e), Len(links))
        rest == UrlSub(s, e + 1, links \o r.links)
    IN  IF i = 0
        THEN [text |-> SubSeq(s, from, Len(s)), links |-> links]
        ELSE [text |-> SubSeq(s, from, i - 1) \o r.repl \o rest.text,
              links |-> rest.links]

(***************************************************************************)
(* create_html_template: escaping and the restore loops.                   *)
(***************************************************************************)
\* The three replacements with '&' escaped last.
EscapeHtmlAmpLast(s) ==
    Replace(Replace(Replace(s, <<"<">>, Lt), <<">">>, Gt), <<"&">>, Amp)

\* The three content.replace calls, in order.
EscapeHtml(s) ==
    Replace(Replace(Replace(s, <<"&">>, Amp), <<"<">>, Lt), <<">">>, Gt)

\* for i, link in enumerate(markdown_links):
\*     content = content.replace(f'§§MDLINK{i}§§', link)
\* from the i-th link (1-based) on.
RECURSIVE RestoreMarkdownFrom(_, _, _)
RestoreMarkdownFrom(s, links, i) ==
    IF i > Len(links) THEN s
    ELSE RestoreMarkdownFrom(Replace(s, MdPlaceholder(i - 1), links[i]), links, i + 1)

RestoreMarkdown(s, links) == RestoreMarkdownFrom(s, links, 1)

\* for i, link in enumerate(literal_links):
\*     content = content.replace(f'§§LINK{i}§§', link)
RECURSIVE RestoreLiteralFrom(_, _, _)
RestoreLiteralFrom(s, links, i) ==
    IF i > Len(links) THEN s
    ELSE RestoreLiteralFrom(Replace(s, LitPlaceholder(i - 1), links[i]), links, i + 1)

RestoreLiteral(s, links) == RestoreLiteralFrom(s, links, 1)

(***************************************************************************)
(* The source texts of the model: every concatenation of at most MaxParts  *)
(* fragments.                                                              *)
(***************************************************************************)
\* plain text: a space and  &<>"'
PlainFragments == {
    <<" ">>,
    <<"&","<",">","\"","'">>}

\* pieces of Markdown link syntax: [  ](b)
SyntaxFragments == {
    <<"[">>,
    <<"]","(","b",")">>}

\* Markdown links to internal documents: [t](b)  [t](b.html)  [t](/b)
InternalLinkFragments == {
    <<"[","t","]","(","b",")">>,
    <<"[","t","]","(","b",".","h","t","m","l",")">>,
    <<"[","t","]","(","/","b",")">>}

\* Markdown links with an absolute scheme: [www.a.co](https://x.co)  [t](mailto:m)
SchemeLinkFragments == {
    <<"[","w","w","w",".","a",".","c","o","]","(","h","t","t","p","s",":","/","/","x",".","c","o",")">>,
    <<"[","t","]","(","m","a","i","l","t","o",":","m",")">>}

\* bare URLs and a path: www.a.co  http://x  ftp://f  a.bc  /d
UrlFragments == {
    <<"w","w","w",".","a",".","c","o">>,
    <<"h","t","t","p",":","/","/","x">>,
    <<"f","t","p",":","/","/","f">>,
    <<"a",".","b","c">>,
    <<"/","d">>}

\* text spelled like a placeholder token: §§LINK0§§  §§MDLINK0§§
PlaceholderFragments == {
    <<"§","§","L","I","N","K","0","§","§">>,
    <<"§","§","M","D","L","I","N","K","0","§","§">>}

Fragments ==
    PlainFragments \cup SyntaxFragments \cup InternalLinkFragments
    \cup SchemeLinkFragments \cup UrlFragments \cup PlaceholderFragments

RECURSIVE Concats(_)
Concats(n) ==
    IF n = 0 THEN {<<>>}
    ELSE LET shorter == Concats(n - 1)
         IN  shorter \cup {p \o f : p \in shorter, f \in Fragments}

Inputs == Concats(MaxParts)

(***************************************************************************)
(* The driver's variables while only create_html_template runs.            *)
(***************************************************************************)
DriverOff ==
    /\ fs = {}
    /\ argv = [mode |-> "none"]
    /\ md_left = {}
    /\ written = {}
    /\ stdout = <<>>
    /\ stderr = <<>>
    /\ failed = {}
    /\ after_failure = {}
    /\ status = -1
    /\ pc = "off"

(***************************************************************************)
(* create_html_template as a state machine over its local variables.       *)
(***************************************************************************)
Init ==
    /\ source \in Inputs
    /\ content = source
    /\ markdown_links = <<>>
    /\ literal_links = <<>>
    /\ rpc = "markdown"
    /\ DriverOff

\* line 41: content = re.sub(markdown pattern, save_markdown_link, content)
MarkdownPass ==
    /\ rpc = "markdown"
    /\ LET r == MdSub(content, 1, <<>>)
       IN  /\ content' = r.text
           /\ markdown_links' = r.links
    /\ rpc' = "urls"
    /\ UNCHANGED <<source, literal_links>>
    /\ UNCHANGED driver_vars

\* line 69: content = re.sub(url_pattern, save_literal_url, content)
UrlPass ==
    /\ rpc = "urls"
    /\ LET r == UrlSub(content, 1, <<>>)
       IN  /\ content' = r.text
           /\ literal_links' = r.links
    /\ rpc' = "escape"
    /\ UNCHANGED <<source, markdown_links>>
    /\ UNCHANGED driver_vars

\* lines 72-74
Escape ==
    /\ rpc = "escape"
    /\ content' = EscapeHtml(content)
    /\ rpc' = "restore_markdown"
    /\ UNCHANGED <<source, markdown_links, literal_links>>
    /\ UNCHANGED driver_vars

\* lines 77-78
RestoreMarkdownLinks ==
    /\ rpc = "restore_markdown"
    /\ content' = RestoreMarkdown(content, markdown_links)
    /\ rpc' = "restore_literal"
    /\ UNCHANGED <<source, markdown_links, literal_links>>
    /\ UNCHANGED driver_vars

\* lines 80-81; the f-string then places content in the template unchanged
RestoreLiteralLinks ==
    /\ rpc = "restore_literal"
    /\ content' = RestoreLiteral(content, literal_links)
    /\ rpc' = "done"
    /\ UNCHANGED <<source, markdown_links, literal_links>>
    /\ UNCHANGED driver_vars

Next ==
    \/ MarkdownPass
    \/ UrlPass
    \/ Escape
    \/ RestoreMarkdownLinks
    \/ RestoreLiteralLinks

Spec == Init /\ [][Next]_vars

(***************************************************************************)
(* Source texts with many links: n bare URLs and m Markdown links, for all *)
(* n, m <= MaxMany, the URLs first, the Markdown links first, or the two   *)
(* alternating; and the texts of fewer than MaxParts fragments.            *)
(***************************************************************************)
UrlToken == <<"a",".","b","c"," ">>
MdToken == <<"[","t","]","(","/","b",")","&">>

RECURSIVE Rep(_, _)
Rep(t, n) == IF n = 0 THEN <<>> ELSE t \o Rep(t, n - 1)

ManyInputs ==
    {Rep(UrlToken, n) \o Rep(MdToken, m) : n, m \in 0..MaxMany}
    \cup {Rep(MdToken, m) \o Rep(UrlToken, n) : n, m \in 0..MaxMany}
    \cup {Rep(UrlToken \o MdToken, n) : n \in 0..MaxMany}
    \cup Concats(MaxParts - 1)

InitMany ==
    /\ source \in ManyInputs
    /\ content = source
    /\ markdown_links = <<>>
    /\ literal_links = <<>>
    /\ rpc = "markdown"
    /\ DriverOff

ManySpec == InitMany /\ [][Next]_vars

(***************************************************************************)
(* The file driver: compile_file, compile_directory and main.              *)
(*                                                                         *)
(* A file of the source tree is [dir, stem, ext]: its directory relative   *)
(* to the source root, and its name split at the last dot.  An output file *)
(* is [root, dir, stem, ext], with root the resolved destination root.     *)
(***************************************************************************)
F(d, n, e) == [dir |-> d, stem |-> n, ext |-> e]

\* The files a source tree of the model may hold.
Candidates ==
    {F(<<>>, "r", "md"), F(<<"a">>, "b", "md"), F(<<"a">>, "c", "markdown"),
     F(<<"a", "d">>, "e", "markdown"), F(<<"a">>, "b", "txt"), F(<<"a">>, "n", "html")}

\* The source trees: the source directory is missing, or holds at most
\* MaxFiles of the candidate files.
Trees ==
    {[dir_exists |-> FALSE, files |-> {}]}
    \cup {[dir_exists |-> TRUE, files |-> fl] :
            fl \in {c \in SUBSET Candidates : Cardinality(c) <= MaxFiles}}

\* sys.argv: the number of arguments after the program name, the source
\* (the source directory, written with or without a trailing '/', or one
\* file below it) and whether base_dir is given.
Sources ==
    {[kind |-> "dir", slash |-> b] : b \in BOOLEAN}
    \cup {[kind |-> "file", file |-> f] : f \in {F(<<"a">>, "b", "md"), F(<<"a">>, "b", "txt")}}

Argvs == [n : {1, 2, 3}, src : Sources]

\* What the I/O of one compile_file call may do.
Outcomes == {"ok", "mkdir_error", "read_error", "write_error"}

\* list(src_dir.rglob('*.md')) + list(src_dir.rglob('*.markdown')), as a set
MdFiles(tree) == {f \in tree.files : f.ext = "md"} \cup {f \in tree.files : f.ext = "markdown"}

\* lines 176-178 and 136-138: Path(base_dir) / dst when base_dir is given
DstRoot(av) == IF av.n > 2 THEN <<"base_dir", "dst">> ELSE <<"dst">>

\* dst_dir / rel_path with the directory part dropped: src_file.name in
\* place of src_file.relative_to(src_dir).
DstFileFlat(av, f) == [root |-> DstRoot(av), dir |-> <<>>, stem |-> f.stem, ext |-> "html"]

\* line 196-199: dst_dir / src_file.relative_to(src_dir).with_suffix('.html')
DstFile(av, f) == [root |-> DstRoot(av), dir |-> f.dir, stem |-> f.stem, ext |-> "html"]

\* compile_file on an existing or missing source with the given I/O outcome:
\* whether it returned True, whether an exception left it, the files
\* written and what it printed.
CompileFile(exists, dst, outcome) ==
    IF ~exists
    THEN [ok |-> FALSE, raised |-> FALSE, out |-> {},
          printed |-> <<"Error: Source file not found">>]
    ELSE CASE outcome = "mkdir_error" ->
                [ok |-> FALSE, raised |-> TRUE, out |-> {}, printed |-> <<>>]
           [] outcome = "read_error" ->
                [ok |-> FALSE, raised |-> FALSE, out |-> {},
                 printed |-> <<"Error reading file">>]
           [] outcome = "write_error" ->
                [ok |-> FALSE, raised |-> FALSE, out |-> {},
                 printed |-> <<"Error writing file">>]
           [] outcome = "ok" ->
                [ok |-> TRUE, raised |-> FALSE, out |-> {dst},
                 printed |-> <<"Compiled">>]

\* line 224: src_path.is_dir() or src.endswith('/')
DirectoryMode(tree, av) ==
    av.src.kind = "dir" /\ (tree.dir_exists \/ av.src.slash)

RenderOff ==
    /\ source = <<>>
    /\ content = <<>>
    /\ markdown_links = <<>>
    /\ literal_links = <<>>
    /\ rpc = "off"

InitDriver ==
    /\ fs \in Trees
    /\ argv \in Argvs
    /\ md_left = {}
    /\ written = {}
    /\ stdout = <<>>
    /\ stderr = <<>>
    /\ failed = {}
    /\ after_failure = {}
    /\ status = -1
    /\ pc = "main"
    /\ RenderOff

\* main, lines 207-215: too few arguments
Usage ==
    /\ pc = "main"
    /\ argv.n < 2
    /\ stdout' = Append(stdout, "Usage:")
    /\ status' = 1
    /\ pc' = "exit"
    /\ UNCHANGED <<fs, argv, md_left, written, stderr, failed, after_failure>>
    /\ UNCHANGED render_vars

\* main in directory mode up to the loop of compile_directory (lines 174-191);
\* a False return makes main call sys.exit(1).
StartDirectory ==
    /\ pc = "main"
    /\ argv.n >= 2
    /\ DirectoryMode(fs, argv)
    /\ IF ~fs.dir_exists
       THEN /\ stdout' = Append(stdout, "Error: Source directory not found")
            /\ status' = 1
            /\ pc' = "exit"
            /\ UNCHANGED md_left
       ELSE IF MdFiles(fs) = {}
       THEN /\ stdout' = Append(stdout, "No markdown files found")
            /\ status' = 1
            /\ pc' = "exit"
            /\ UNCHANGED md_left
       ELSE /\ stdout' = Append(stdout, "Found markdown file(s)")
            /\ md_left' = MdFiles(fs)
            /\ pc' = "loop"
            /\ UNCHANGED status
    /\ UNCHANGED <<fs, argv, written, stderr, failed, after_failure>>
    /\ UNCHANGED render_vars

\* One iteration of the loop of lines 194-201 on file f: the *.md files come
\* before the *.markdown files, each group in the order of the traversal.
\* The value compile_file returns is dropped; an exception that leaves
\* compile_file (the mkdir of line 146 is outside any try) ends the process
\* with a traceback on the error stream.
CompileInDirectory(f, outcome) ==
    /\ pc = "loop"
    /\ f \in md_left
    /\ f.ext = "md" \/ ~\E g \in md_left : g.ext = "md"
    /\ LET r == CompileFile(TRUE, DstFile(argv, f), outcome)
       IN  /\ written' = written \cup r.out
           /\ stdout' = stdout \o r.printed
           /\ failed' = IF r.ok THEN failed ELSE failed \cup {f}
           /\ after_failure' = IF failed # {} THEN after_failure \cup {f} ELSE after_failure
           /\ IF r.raised
              THEN /\ stderr' = Append(stderr, "Traceback")
                   /\ status' = 1
                   /\ pc' = "exit"
              ELSE UNCHANGED <<stderr, status, pc>>
    /\ md_left' = md_left \ {f}
    /\ UNCHANGED <<fs, argv>>
    /\ UNCHANGED render_vars

\* line 203 and lines 231-232: compile_directory returns True
FinishDirectory ==
    /\ pc = "loop"
    /\ md_left = {}
    /\ stdout' = Append(stdout, "Compilation complete!")
    /\ status' = 0
    /\ pc' = "exit"
    /\ UNCHANGED <<fs, argv, md_left, written, stderr, failed, after_failure>>
    /\ UNCHANGED render_vars

\* main in single-file mode, lines 229-234
CompileSingle(outcome) ==
    /\ pc = "main"
    /\ argv.n >= 2
    /\ ~DirectoryMode(fs, argv)
    /\ LET exists == argv.src.kind = "file" /\ argv.src.file \in fs.files
           dst == [root |-> DstRoot(argv), dir |-> <<>>, stem |-> "out", ext |-> "html"]
           r == CompileFile(exists, dst, outcome)
       IN  /\ written' = written \cup r.out
           /\ stdout' = IF r.ok THEN stdout \o r.printed \o <<"Compilation complete!">>
                        ELSE stdout \o r.printed
           /\ stderr' = IF r.raised THEN Append(stderr, "Traceback") ELSE stderr
           /\ status' = IF r.ok THEN 0 ELSE 1
           /\ failed' = IF r.ok \/ ~exists THEN failed ELSE failed \cup {argv.src.file}
    /\ pc' = "exit"
    /\ UNCHANGED <<fs, argv, md_left, after_failure>>
    /\ UNCHANGED render_vars

NextDriver ==
    \/ Usage
    \/ StartDirectory
    \/ \E f \in Candidates, o \in Outcomes : CompileInDirectory(f, o)
    \/ FinishDirectory
    \/ \E o \in Outcomes : CompileSingle(o)

DriverSpec == InitDriver /\ [][NextDriver]_vars

(***************************************************************************)
(* Reference definitions used by the properties.                           *)
(***************************************************************************)
\* The matches re.sub visits for the Markdown pattern, in order.
RECURSIVE MdMatches(_, _)
MdMatches(s, from) ==
    LET i == NextMdMatch(s, from)
        m == MdMatchAt(s, i)
    IN  IF i = 0 THEN <<>>
        ELSE <<[text |-> m.text, path |-> m.path]>> \o MdMatches(s, m.end + 1)

\* The matches re.sub visits for url_pattern, in order.
RECURSIVE UrlMatches(_, _)
UrlMatches(s, from) ==
    LET i == NextUrlMatch(s, from)
        e == UrlMatchEnd(s, i)
    IN  IF i = 0 THEN <<>>
        ELSE <<SubSeq(s, i, e)>> \o UrlMatches(s, e + 1)

HasScheme(p) == StartsWith(p, Http) \/ StartsWith(p, Https) \/ StartsWith(p, Ftp)

\* The href the specification gives a Markdown target: unchanged under an
\* absolute scheme, otherwise one leading '/' stripped, then '.html' appended
\* unless the target already ends with it.
ExpectedMarkdownHref(path) ==
    IF HasScheme(path) \/ StartsWith(path, Mailto) THEN path
    ELSE LET stripped == IF StartsWith(path, <<"/">>) THEN Tail(path) ELSE path
         IN  IF EndsWith(stripped, DotHtml) THEN stripped ELSE stripped \o DotHtml

\* The href the specification gives a bare URL.
ExpectedLiteralHref(url) == IF HasScheme(url) THEN url ELSE Http \o url

\* Character-wise HTML escaping of exactly '&', '<' and '>'.
EscapeChar(c) ==
    IF c = "&" THEN Amp ELSE IF c = "<" THEN Lt ELSE IF c = ">" THEN Gt ELSE <<c>>

RECURSIVE EscapeEach(_)
EscapeEach(s) == IF s = <<>> THEN <<>> ELSE EscapeChar(Head(s)) \o EscapeEach(Tail(s))

\* The text the URL pass has to leave: the k-th match that does not contain
\* the Markdown marker replaced by the k-th literal placeholder, everything
\* else as it was.
RECURSIVE UrlPassExpected(_, _, _)
UrlPassExpected(s, from, n) ==
    LET i == NextUrlMatch(s, from)
        e == UrlMatchEnd(s, i)
        marked == Contains(SubSeq(s, i, e), MdMarker)
    IN  IF i = 0 THEN SubSeq(s, from, Len(s))
        ELSE IF marked
        THEN SubSeq(s, from, e) \o UrlPassExpected(s, e + 1, n)
        ELSE SubSeq(s, from, i - 1) \o LitMarker \o Str(n) \o Delim
             \o UrlPassExpected(s, e + 1, n + 1)

Unmarked(url) == ~Contains(url, MdMarker)

\* The number of places where p occurs in s.
CountOcc(s, p) == Cardinality({i \in 1..Len(s) : IsPrefixAt(s, i, p)})

\* An anchor opens inside an anchor that is still open.
NestedAnchor(s) ==
    \E i, j \in 1..Len(s) :
        /\ i < j
        /\ IsPrefixAt(s, i, AHref)
        /\ IsPrefixAt(s, j, AHref)
        /\ ~\E k \in i..j : IsPrefixAt(s, k, CloseA)

NoSectionSign(s) == \A i \in 1..Len(s) : s[i] # "§"

(***************************************************************************)
(* The transformation with collision-free placeholders: a detected         *)
(* Markdown link becomes the single symbol "MD", a detected literal URL    *)
(* the single symbol "LIT" (no character of a text is either), the         *)
(* characters are escaped one by one, and the k-th symbol of each kind is  *)
(* filled with the k-th anchor of its list.                                *)
(***************************************************************************)
RECURSIVE SymbolicMd(_, _)
SymbolicMd(s, from) ==
    LET i == NextMdMatch(s, from)
    IN  IF i = 0 THEN SubSeq(s, from, Len(s))
        ELSE SubSeq(s, from, i - 1) \o <<"MD">> \o SymbolicMd(s, MdMatchAt(s, i).end + 1)

RECURSIVE SymbolicUrl(_, _)
SymbolicUrl(s, from) ==
    LET i == NextUrlMatch(s, from)
        e == UrlMatchEnd(s, i)
        url == SubSeq(s, i, e)
    IN  IF i = 0 THEN SubSeq(s, from, Len(s))
        ELSE IF Contains(url, <<"MD">>) \/ Contains(url, MdMarker)
        THEN SubSeq(s, from, e) \o SymbolicUrl(s, e + 1)
        ELSE SubSeq(s, from, i - 1) \o <<"LIT">> \o SymbolicUrl(s, e + 1)

RECURSIVE Fill(_, _, _, _, _)
Fill(s, i, mds, lits, k) ==
    IF i > Len(s) THEN <<>>
    ELSE IF s[i] = "MD" THEN mds[k[1]] \o Fill(s, i + 1, mds, lits, <<k[1] + 1, k[2]>>)
    ELSE IF s[i] = "LIT" THEN lits[k[2]] \o Fill(s, i + 1, mds, lits, <<k[1], k[2] + 1>>)
    ELSE EscapeChar(s[i]) \o Fill(s, i + 1, mds, lits, k)

SymbolicBody(s, mds, lits) ==
    LET t == SymbolicUrl(SymbolicMd(s, 1), 1)
    IN  IF CountOcc(t, <<"MD">>) = Len(mds) /\ CountOcc(t, <<"LIT">>) = Len(lits)
        THEN Fill(t, 1, mds, lits, <<1, 1>>)
        ELSE <<"mismatch">>

\* The restore loops run in other orders.
RECURSIVE RestoreMarkdownDown(_, _, _)
RestoreMarkdownDown(s, links, i) ==
    IF i < 1 THEN s
    ELSE RestoreMarkdownDown(Replace(s, MdPlaceholder(i - 1), links[i]), links, i - 1)

RECURSIVE RestoreLiteralDown(_, _, _)
RestoreLiteralDown(s, links, i) ==
    IF i < 1 THEN s
    ELSE RestoreLiteralDown(Replace(s, LitPlaceholder(i - 1), links[i]), links, i - 1)

(***************************************************************************)
(* Properties of create_html_template.                                     *)
(***************************************************************************)
\* C1: when neither the Markdown-link pattern nor the URL pattern matches the
\* input, the body is the input with exactly '&', '<' and '>' replaced by
\* their entities, every other character kept, and no anchor is made.
C1_NoLinkBodyIsEscapedInput ==
    (rpc = "done" /\ NextMdMatch(source, 1) = 0 /\ NextUrlMatch(source, 1) = 0)
        => /\ content = EscapeEach(source)
           /\ markdown_links = <<>>
           /\ literal_links = <<>>
           /\ ~Contains(content, AHref)

C1_Witness ==
    /\ rpc = "done"
    /\ NextMdMatch(source, 1) = 0 /\ NextUrlMatch(source, 1) = 0
    /\ source = <<"[", "&", "<", ">", "\"", "'", " ">>
    /\ content = <<"[">> \o Amp \o Lt \o Gt \o <<"\"", "'", " ">>

\* C2: the anchor saved for every matched Markdown link [text](target) has
\* the target as href when the target begins with http://, https://, ftp://
\* or mailto:, and otherwise the target with one leading '/' stripped and
\* '.html' appended unless it already ends with '.html'; its label is the
\* display text.  For a text without the section sign that anchor is in the
\* body.
C2_MarkdownHref ==
    /\ rpc = "urls" =>
          LET ms == MdMatches(source, 1)
          IN  /\ Len(markdown_links) = Len(ms)
              /\ \A i \in 1..Len(ms) :
                    /\ StartsWith(markdown_links[i],
                                  AHref \o ExpectedMarkdownHref(ms[i].path) \o <<"\"">>)
                    /\ EndsWith(markdown_links[i], <<">">> \o ms[i].text \o CloseA)
    /\ (rpc = "done" /\ NoSectionSign(source)) =>
          \A i \in 1..Len(markdown_links) : Contains(content, markdown_links[i])

C2_Witness ==
    /\ rpc = "done"
    /\ source = <<"[","t","]","(","b",")">>
                \o <<"[","t","]","(","b",".","h","t","m","l",")">>
                \o <<"[","t","]","(","/","b",")">>
    /\ Len(markdown_links) = 3
    /\ \A i \in 1..3 :
          markdown_links[i] = AHref \o <<"b",".","h","t","m","l">> \o QuoteGt \o <<"t">> \o CloseA

\* C3: the anchor of a Markdown link carries target="_blank" exactly when the
\* target begins with http://, https:// or ftp://; an internal reference and
\* a mailto: target carry no target attribute.
C3_BlankOnlyForHttpFtp ==
    rpc = "urls" =>
        LET ms == MdMatches(source, 1)
        IN  /\ Len(markdown_links) = Len(ms)
            /\ \A i \in 1..Len(ms) :
                  markdown_links[i] =
                      AHref \o ExpectedMarkdownHref(ms[i].path)
                      \o (IF HasScheme(ms[i].path) THEN TargetBlank ELSE QuoteGt)
                      \o ms[i].text \o CloseA

\* C4: every match of the URL pattern that does not contain the Markdown
\* marker is replaced by one placeholder whose anchor has the matched text as
\* label, the matched text as href when it begins with http://, https:// or
\* ftp:// and 'http://' + the matched text otherwise, and target="_blank";
\* no such match stays plain text.  For a text without the section sign that
\* anchor is in the body.
C4_LiteralUrlAnchors ==
    /\ rpc = "escape" =>
        LET t == MdSub(source, 1, <<>>).text
            us == SelectSeq(UrlMatches(t, 1), Unmarked)
        IN  /\ Len(literal_links) = Len(us)
            /\ \A i \in 1..Len(us) :
                  literal_links[i] =
                      AHref \o ExpectedLiteralHref(us[i]) \o TargetBlank \o us[i] \o CloseA
            /\ content = UrlPassExpected(t, 1, 0)
    /\ (rpc = "done" /\ NoSectionSign(source)) =>
          \A i \in 1..Len(literal_links) : Contains(content, literal_links[i])

C4_Witness ==
    /\ rpc = "done"
    /\ source = <<"w","w","w",".","a",".","c","o"," ","a",".","b","c">>
    /\ literal_links =
          << AHref \o Http \o <<"w","w","w",".","a",".","c","o">> \o TargetBlank
                \o <<"w","w","w",".","a",".","c","o">> \o CloseA,
             AHref \o Http \o <<"a",".","b","c">> \o TargetBlank
                \o <<"a",".","b","c">> \o CloseA >>
    /\ content = literal_links[1] \o <<" ">> \o literal_links[2]

\* C5: a span consumed by Markdown-link detection is never claimed by the
\* literal-URL pass: every Markdown placeholder passes through the URL pass
\* intact, each link yields exactly one anchor in the output, and no anchor
\* opens inside another anchor or inside an href.
C5_MarkdownPrecedence ==
    /\ rpc \in {"escape", "restore_markdown"} =>
          \A i \in 1..Len(markdown_links) : Contains(content, MdPlaceholder(i - 1))
    /\ rpc = "done" =>
          /\ \A i \in 1..Len(markdown_links) :
                CountOcc(content, markdown_links[i]) =
                    Cardinality({j \in 1..Len(markdown_links) :
                                    markdown_links[j] = markdown_links[i]})
          /\ ~NestedAnchor(content)

\* C9: text that is not a detected Markdown link or literal URL, placeholder
\* look-alikes included, reaches the output as its HTML-escaped self: the body
\* is the one the collision-free transformation produces.
C9_PlaceholdersNeverCollide ==
    rpc = "done" => content = SymbolicBody(source, markdown_links, literal_links)

Seen(stream, msg) == \E i \in 1..Len(stream) : stream[i] = msg

IsMarkdown(f) == f.ext \in {"md", "markdown"}

\* The destination root plus the file's path relative to the source root,
\* with the extension changed to .html.
ExpectedOutput(f) ==
    [root |-> IF argv.n > 2 THEN <<"base_dir", "dst">> ELSE <<"dst">>,
     dir |-> f.dir, stem |-> f.stem, ext |-> "html"]

RanDirectoryMode == argv.n >= 2 /\ DirectoryMode(fs, argv)

\* C6: in directory mode a file that fails to compile (read or write error)
\* aborts the run: compile_file is called on no later file, 'Compilation
\* complete!' is not printed and the exit status is not zero.
C6_FailureAbortsRun ==
    RanDirectoryMode =>
        /\ after_failure = {}
        /\ (pc = "exit" /\ failed # {}) =>
              /\ status # 0
              /\ ~Seen(stdout, "Compilation complete!")

\* C7: compile_directory writes, for every *.md or *.markdown file at any
\* depth that compiles, the HTML file at the destination root plus the
\* file's relative path with the extension changed to .html, and writes
\* nothing for a file with another extension.
C7_DirectoryOutputs ==
    RanDirectoryMode =>
        /\ written \subseteq {ExpectedOutput(f) : f \in {g \in fs.files : IsMarkdown(g)}}
        /\ (pc = "exit" /\ status = 0) =>
              \A f \in fs.files :
                  (IsMarkdown(f) /\ f \notin failed) => ExpectedOutput(f) \in written

C7_Witness ==
    /\ RanDirectoryMode
    /\ pc = "exit"
    /\ status = 0
    /\ failed = {}
    /\ fs.files = {F(<<"a">>, "b", "md"), F(<<"a">>, "c", "markdown"), F(<<"a">>, "b", "txt")}
    /\ written = {[root |-> <<"dst">>, dir |-> <<"a">>, stem |-> "b", ext |-> "html"],
                  [root |-> <<"dst">>, dir |-> <<"a">>, stem |-> "c", ext |-> "html"]}

\* The source named on the command line is missing, or is a directory with
\* no *.md / *.markdown file.
SourceNotFound ==
    /\ argv.n >= 2
    /\ IF DirectoryMode(fs, argv)
       THEN ~fs.dir_exists \/ ~\E f \in fs.files : IsMarkdown(f)
       ELSE ~(argv.src.kind = "file" /\ argv.src.file \in fs.files)

NotFoundMessages ==
    {"Error: Source file not found", "Error: Source directory not found",
     "No markdown files found"}

\* C8: every source-not-found outcome is reported on the error stream, writes
\* no output file, prints no completion message and exits with non-zero
\* status; the completion message is printed only by a run that exits with
\* status zero.
C8_NotFoundOnErrorStream ==
    pc = "exit" =>
        /\ SourceNotFound =>
              /\ \E m \in NotFoundMessages : Seen(stderr, m)
              /\ written = {}
              /\ ~Seen(stdout, "Compilation complete!")
              /\ status # 0
        /\ Seen(stdout, "Compilation complete!") => status = 0

====
